---- MODULE Spec2Model ----
(***************************************************************************)
(* MarkovChainBot: the mention parser, the command dispatcher, the         *)
(* ingestion filter and the generation pipeline of the Bot class.          *)
(*                                                                         *)
(* JavaScript strings are sequences of one-character strings, so that      *)
(* split, join, replace, indexOf and parseInt are computed character by    *)
(* character.  JavaScript values that may be undefined are records         *)
(* [type, chars].                                                          *)
(***************************************************************************)
EXTENDS Integers, Sequences, FiniteSets, TLC

VARIABLES
    id,          \* this.id, set by the AUTHENTICATED handler
    configLimit, \* this.config.limit
    store,       \* the documents of the Message collection, in natural order
    pending,     \* store operations issued and not yet resolved
    last,        \* the effects of the most recent handler or callback
    proc         \* the process: the configured teams, the bots built, whether it died

vars == <<id, configLimit, store, pending, last, proc>>

(***************************************************************************)
(* Bounds                                                                  *)
(***************************************************************************)
MaxStore == 2      \* documents in the collection
MaxPending == 2    \* unresolved store operations
MaxArgs == 2       \* tokens after a command keyword
MaxTeams == 2      \* team configurations in config.teams

(***************************************************************************)
(* String literals of the source                                           *)
(***************************************************************************)
DenyText ==
    <<"I", "'", "m", " ", "s", "o", "r", "r", "y", ",", " ", "D", "a", "v", "e", ".", " ", "I", "'", "m", " ", "a", "f", "r", "a", "i", "d", " ", "I", " ", "c", "a", "n", "'", "t", " ", "d", "o", " ", "t", "h", "a", "t">>
PurgeDescription ==
    <<"P", "u", "r", "g", "e", "s", " ", "a", "l", "l", " ", "o", "f", " ", "a", " ", "u", "s", "e", "r", "'", "s", " ", "m", "e", "s", "s", "a", "g", "e", "s", " ", "f", "r", "o", "m", " ", "t", "h", "e", " ", "d", "a", "t", "a", "b", "a", "s", "e">>
HelpDescription ==
    <<"D", "i", "s", "p", "l", "a", "y", "s", " ", "t", "h", "e", " ", "h", "e", "l", "p", " ", "m", "e", "s", "s", "a", "g", "e">>
HelpHeader ==
    <<"H", "e", "r", "e", " ", "i", "s", " ", "a", " ", "l", "i", "s", "t", " ", "o", "f", " ", "t", "h", "e", " ", "c", "o", "m", "m", "a", "n", "d", "s", " ", "I", " ", "k", "n", "o", "w", ":", " ", "\r">>
PurgedText ==
    <<" ", "Y", "o", "u", "r", " ", "m", "e", "s", "s", "a", "g", "e", "s", " ", "h", "a", "v", "e", " ", "b", "e", "e", "n", " ", "p", "u", "r", "g", "e", "d", "!">>
SaysText ==
    <<">", " ", "s", "a", "y", "s", ":", " ">>
UndefinedText ==
    <<"u", "n", "d", "e", "f", "i", "n", "e", "d">>
MentionPrefix == <<"<", "@">>
MeText == <<"m", "e">>
FileShare == "file_share"
HelpFlagShort == <<"-", "h">>
HelpFlagLong == <<"-", "-", "h", "e", "l", "p">>
PurgeName == <<"p", "u", "r", "g", "e">>
HelpName == <<"h", "e", "l", "p">>
DefaultLimit == 150
\* the backquote character (U+0060), which a TLA+ string cannot hold
Backquote == "U+0060"

(***************************************************************************)
(* JavaScript values                                                       *)
(***************************************************************************)
Str(s) == [type |-> "string", chars |-> s]
Undef == [type |-> "undefined", chars |-> <<>>]
Num(n) == [nan |-> FALSE, val |-> n]
NaN == [nan |-> TRUE, val |-> 0]

\* `<@${x}>`: an undefined value is rendered as the text "undefined"
Render(v) == IF v.type = "undefined" THEN UndefinedText ELSE v.chars
MentionOf(v) == MentionPrefix \o Render(v) \o <<">">>

(***************************************************************************)
(* String.prototype.split(sep), Array.prototype.join(sep)                  *)
(***************************************************************************)
\* the pieces of s between the occurrences of the character sep; the
\* recursion goes from one occurrence to the next
RECURSIVE Split(_, _)
Split(s, sep) ==
    IF \A i \in 1..Len(s) : s[i] # sep THEN <<s>>
    ELSE LET i == CHOOSE k \in 1..Len(s) :
                      s[k] = sep /\ \A j \in 1..(k - 1) : s[j] # sep
         IN  <<SubSeq(s, 1, i - 1)>> \o Split(SubSeq(s, i + 1, Len(s)), sep)

RECURSIVE Join(_, _)
Join(parts, sep) ==
    IF Len(parts) = 0 THEN <<>>
    ELSE IF Len(parts) = 1 THEN parts[1]
    ELSE parts[1] \o <<sep>> \o Join(Tail(parts), sep)

\* String.prototype.indexOf(pat), zero-based, -1 when absent
RECURSIVE IndexOfFrom(_, _, _)
IndexOfFrom(s, pat, i) ==
    IF i + Len(pat) - 1 > Len(s) THEN -1
    ELSE IF SubSeq(s, i, i + Len(pat) - 1) = pat THEN i - 1
    ELSE IndexOfFrom(s, pat, i + 1)

IndexOf(s, pat) == IndexOfFrom(s, pat, 1)

\* Array.prototype.indexOf(x), zero-based, -1 when absent
RECURSIVE ArrayIndexOfFrom(_, _, _)
ArrayIndexOfFrom(arr, x, i) ==
    IF i > Len(arr) THEN -1
    ELSE IF arr[i] = x THEN i - 1
    ELSE ArrayIndexOfFrom(arr, x, i + 1)

ArrayIndexOf(arr, x) == ArrayIndexOfFrom(arr, x, 1)

(***************************************************************************)
(* Character classes                                                       *)
(***************************************************************************)
DecDigits == <<"0", "1", "2", "3", "4", "5", "6", "7", "8", "9">>
HexLetters == <<"a", "b", "c", "d", "e", "f">>
HexLettersUpper == <<"A", "B", "C", "D", "E", "F">>
Letters ==
    {"a", "b", "c", "d", "e", "f", "g", "h", "i", "j", "k", "l", "m",
     "n", "o", "p", "q", "r", "s", "t", "u", "v", "w", "x", "y", "z",
     "A", "B", "C", "D", "E", "F", "G", "H", "I", "J", "K", "L", "M",
     "N", "O", "P", "Q", "R", "S", "T", "U", "V", "W", "X", "Y", "Z"}
WhiteSpace == {" ", "\t", "\n", "\r"}

\* the value of character c in the given radix, -1 when it is no digit
DigitValue(c, radix) ==
    IF ArrayIndexOf(DecDigits, c) >= 0 THEN ArrayIndexOf(DecDigits, c)
    ELSE IF radix = 16 /\ ArrayIndexOf(HexLetters, c) >= 0
        THEN 10 + ArrayIndexOf(HexLetters, c)
    ELSE IF radix = 16 /\ ArrayIndexOf(HexLettersUpper, c) >= 0
        THEN 10 + ArrayIndexOf(HexLettersUpper, c)
    ELSE -1

\* /[^0-9a-z]/gi matches every character that is no digit and no letter
IsAlnum(c) == DigitValue(c, 10) >= 0 \/ c \in Letters

\* a replace that removes the mention brackets only
StripNonAlnum_Brackets(s) == SelectSeq(s, LAMBDA c : c \notin {"<", "@", ">"})

\* str.replace(/[^0-9a-z]/gi, '')
StripNonAlnum(s) == SelectSeq(s, IsAlnum)

(***************************************************************************)
(* parseInt(string) with no radix argument                                 *)
(***************************************************************************)
RECURSIVE SkipWhiteSpace(_)
SkipWhiteSpace(s) ==
    IF Len(s) > 0 /\ s[1] \in WhiteSpace THEN SkipWhiteSpace(Tail(s)) ELSE s

\* the digits of s from position i on, accumulated into acc; seen tells
\* whether at least one digit was read
RECURSIVE ParseDigits(_, _, _, _, _)
ParseDigits(s, radix, i, acc, seen) ==
    IF i <= Len(s) /\ DigitValue(s[i], radix) >= 0
    THEN ParseDigits(s, radix, i + 1, acc * radix + DigitValue(s[i], radix), TRUE)
    ELSE IF seen THEN Num(acc) ELSE NaN

ParseInt(v) ==
    IF v.type = "undefined" THEN NaN   \* parseInt(undefined) reads "undefined"
    ELSE
    LET t == SkipWhiteSpace(v.chars)
        neg == Len(t) > 0 /\ t[1] = "-"
        signed == Len(t) > 0 /\ t[1] \in {"+", "-"}
        u == IF signed THEN Tail(t) ELSE t
        hex == Len(u) >= 2 /\ u[1] = "0" /\ u[2] \in {"x", "X"}
        w == IF hex THEN SubSeq(u, 3, Len(u)) ELSE u
        r == ParseDigits(w, IF hex THEN 16 ELSE 10, 1, 0, FALSE)
    IN  IF r.nan THEN NaN ELSE Num(IF neg THEN 0 - r.val ELSE r.val)

\* a fallback that is taken for NaN only
OrDefault_NaNOnly(n, dflt) == IF n.nan THEN dflt ELSE n.val

\* parseInt(x) || dflt: NaN and 0 are falsy
OrDefault(n, dflt) == IF n.nan \/ n.val = 0 THEN dflt ELSE n.val

\* arr[i] of a JavaScript array, zero-based: undefined past the end
At(arr, i) == IF i + 1 <= Len(arr) THEN Str(arr[i + 1]) ELSE Undef

\* truthiness of a string-or-undefined value
Truthy(v) == v.type = "string" /\ Len(v.chars) > 0

(***************************************************************************)
(* Identities, channels and the records exchanged with the collaborators   *)
(***************************************************************************)
BotId == <<"B", "0">>
U1 == <<"U", "1">>
U2 == <<"U", "2">>
Users == {U1, U2}
Channels == {"C1", "C2"}
NoSubtype == "undefined"
Team == "T1"

NoDoc == [type |-> "", channel |-> "", user |-> <<>>, text |-> <<>>, ts |-> 0, team |-> ""]

\* a store operation in flight
FindOp(params) ==
    [kind |-> "find", user |-> params.user, channel |-> params.channel,
     limit |-> params.limit, doc |-> NoDoc]
RemoveOp(user, channel) ==
    [kind |-> "remove", user |-> user, channel |-> channel, limit |-> 0, doc |-> NoDoc]
SaveOp(doc) ==
    [kind |-> "save", user |-> doc.user, channel |-> doc.channel, limit |-> 0, doc |-> doc]

\* this.client.sendMessage(text, channel)
Send(text, channel) == [text |-> text, channel |-> channel]

(***************************************************************************)
(* _setCommands: the command table, in insertion order                     *)
(***************************************************************************)
_setCommands ==
    <<[name |-> PurgeName, method |-> "_purge", description |-> Str(PurgeDescription)],
      [name |-> HelpName, method |-> "_help", description |-> Str(HelpDescription)]>>

\* Object.keys(this._commands)
CommandKeys == [i \in 1..Len(_setCommands) |-> _setCommands[i].name]

\* the property names every plain object inherits from Object.prototype
ObjectPrototypeKeys ==
    {<<"c", "o", "n", "s", "t", "r", "u", "c", "t", "o", "r">>,
     <<"t", "o", "S", "t", "r", "i", "n", "g">>,
     <<"t", "o", "L", "o", "c", "a", "l", "e", "S", "t", "r", "i", "n", "g">>,
     <<"v", "a", "l", "u", "e", "O", "f">>,
     <<"h", "a", "s", "O", "w", "n", "P", "r", "o", "p", "e", "r", "t", "y">>,
     <<"i", "s", "P", "r", "o", "t", "o", "t", "y", "p", "e", "O", "f">>,
     <<"p", "r", "o", "p", "e", "r", "t", "y", "I", "s", "E", "n", "u", "m", "e", "r", "a", "b", "l", "e">>,
     <<"_", "_", "p", "r", "o", "t", "o", "_", "_">>,
     <<"_", "_", "d", "e", "f", "i", "n", "e", "G", "e", "t", "t", "e", "r", "_", "_">>,
     <<"_", "_", "d", "e", "f", "i", "n", "e", "S", "e", "t", "t", "e", "r", "_", "_">>,
     <<"_", "_", "l", "o", "o", "k", "u", "p", "G", "e", "t", "t", "e", "r", "_", "_">>,
     <<"_", "_", "l", "o", "o", "k", "u", "p", "S", "e", "t", "t", "e", "r", "_", "_">>}

\* this._commands[key]: an own entry, an inherited member of Object.prototype
\* (truthy, with neither method nor description), or undefined
CommandLookup(key) ==
    IF \E i \in 1..Len(_setCommands) : _setCommands[i].name = key
    THEN LET i == CHOOSE j \in 1..Len(_setCommands) : _setCommands[j].name = key
         IN  [truthy |-> TRUE, method |-> _setCommands[i].method,
              description |-> _setCommands[i].description]
    ELSE IF key \in ObjectPrototypeKeys
    THEN [truthy |-> TRUE, method |-> "undefined", description |-> Undef]
    ELSE [truthy |-> FALSE, method |-> "undefined", description |-> Undef]

\* an _isCalled that does not compare the first token with the bot's mention
_isCalled_AnyFirst(msg) ==
    LET msgArr == Split(msg.text, " ")
    IN  IF Len(msgArr) > 0 /\ Truthy(At(msgArr, 1))
        THEN [called |-> TRUE, arr |-> msgArr]
        ELSE [called |-> FALSE, arr |-> <<>>]

(***************************************************************************)
(* Bot._isCalled                                                           *)
(***************************************************************************)
_isCalled(msg) ==
    LET msgArr == Split(msg.text, " ")
    IN  IF Len(msgArr) > 0 /\ Truthy(At(msgArr, 1)) /\ msgArr[1] = MentionOf(id)
        THEN [called |-> TRUE, arr |-> msgArr]
        ELSE [called |-> FALSE, arr |-> <<>>]

(***************************************************************************)
(* Bot.getMsgTag: the returned value and the messages sent on the way      *)
(***************************************************************************)
FalseTag == [kind |-> "false", user |-> <<>>, channel |-> "", limit |-> 0]
NullTag == [kind |-> "null", user |-> <<>>, channel |-> "", limit |-> 0]
ObjectTag(user, channel, limit) ==
    [kind |-> "object", user |-> user, channel |-> channel, limit |-> limit]

\* Bot.deny
deny(channel) == Send(Str(DenyText), channel)

\* a self test that compares the token with the bare id
IsSelfMention_Bare(token) == token = Render(id)

\* msgArray[1] == `<@${this.id}>`
IsSelfMention(token) == token = MentionOf(id)

getMsgTag(msg) ==
    LET msgArray == Split(msg.text, " ")
    IN  IF _isCalled(msg).called
        THEN IF msgArray[2] = MeText
             THEN [res |-> ObjectTag(msg.user, msg.channel,
                                     OrDefault(ParseInt(At(msgArray, 2)), configLimit)),
                   sends |-> <<>>]
             ELSE IF IndexOf(msgArray[2], MentionPrefix) = 0
             THEN IF IsSelfMention(msgArray[2])
                  THEN [res |-> NullTag, sends |-> <<deny(msg.channel)>>]
                  ELSE [res |-> ObjectTag(StripNonAlnum(msgArray[2]), msg.channel,
                                          OrDefault(ParseInt(At(msgArray, 2)), configLimit)),
                        sends |-> <<>>]
             ELSE [res |-> FalseTag, sends |-> <<>>]
        ELSE [res |-> FalseTag, sends |-> <<>>]

(***************************************************************************)
(* Bot._parseCommand                                                       *)
(***************************************************************************)
FalseCommand == [kind |-> "false", method |-> "undefined", description |-> Undef, args |-> <<>>]

_parseCommand(msg) ==
    LET called == _isCalled(msg)
    IN  IF called.called /\ Truthy(At(called.arr, 0))
        THEN LET shifted == Tail(called.arr)
                 command == CommandLookup(shifted[1])
             IN  IF command.truthy
                 THEN [kind |-> "object", method |-> command.method,
                       description |-> command.description, args |-> Tail(shifted)]
                 ELSE FalseCommand
        ELSE FalseCommand

(***************************************************************************)
(* The effects of one handler or callback                                  *)
(***************************************************************************)
NoMsg == [text |-> <<>>, user |-> <<>>, channel |-> "", subtype |-> NoSubtype, ts |-> 0,
          type |-> "", team |-> ""]
NoOp == [kind |-> "none", user |-> <<>>, channel |-> "", limit |-> 0, doc |-> NoDoc]

\* sends: sendMessage calls; ops: store operations started; ran: the command
\* handler run; error: the exception thrown
Effects(sends, ops, ran, error) ==
    [sends |-> sends, ops |-> ops, ran |-> ran, error |-> error]
NoEffects == Effects(<<>>, <<>>, "none", "none")

(***************************************************************************)
(* Bot._help, Bot._purge, Bot._exec                                        *)
(***************************************************************************)
\* a help line that leaves the description out
HelpLine_NoDescription(name, description) == <<Backquote>> \o name \o <<Backquote>>

\* one line of the help text: the name between backquotes, a colon, the description
HelpLine(name, description) ==
    <<Backquote>> \o name \o <<Backquote, ":", " ">> \o Render(description)

_help(msg) ==
    LET text == <<HelpHeader>> \o
                [i \in 1..Len(CommandKeys) |->
                    HelpLine(CommandKeys[i], CommandLookup(CommandKeys[i]).description)]
    IN  Effects(<<Send(Str(Join(text, "\r")), msg.channel)>>, <<>>, "_help", "none")

\* the removal is started here; its confirmation is sent by RemoveResolve
_purge(msg) == Effects(<<>>, <<RemoveOp(msg.user, msg.channel)>>, "_purge", "none")

\* a help test that looks at the first argument only
HasHelpFlag_FirstOnly(args) ==
    Len(args) > 0 /\ args[1] \in {HelpFlagShort, HelpFlagLong}

\* ~args.indexOf('-h') || ~args.indexOf('--help')
HasHelpFlag(args) ==
    ArrayIndexOf(args, HelpFlagShort) # -1 \/ ArrayIndexOf(args, HelpFlagLong) # -1

_exec(methodName, msg, args) ==
    IF HasHelpFlag(args)
    THEN LET prop == At(Split(msg.text, " "), 1)
             text == CommandLookup(prop.chars).description
         IN  Effects(<<Send(text, msg.channel)>>, <<>>, "none", "none")
    ELSE IF methodName = "_purge" THEN _purge(msg)
    ELSE IF methodName = "_help" THEN _help(msg)
    ELSE Effects(<<>>, <<>>, "none", "TypeError")  \* this[undefined] is not a function

(***************************************************************************)
(* Bot._warrantsSave, Bot.saveMessage, Bot.generate                        *)
(***************************************************************************)
\* a filter that lets every subtype through
_warrantsSave_Always(msg) == TRUE

_warrantsSave(msg) ==
    IF msg.subtype # NoSubtype /\ msg.subtype = FileShare THEN FALSE ELSE TRUE

\* new Date(seconds * 1000): the milliseconds since the epoch
ToDate(seconds) == seconds * 1000

saveMessage(msg) ==
    LET doc == [type |-> msg.type, channel |-> msg.channel, user |-> msg.user,
                text |-> msg.text, ts |-> ToDate(msg.ts), team |-> msg.team]
    IN  Effects(<<>>, <<SaveOp(doc)>>, "none", "none")

\* a generation that starts its query twice
generate_Twice(params) ==
    Effects(<<>>, <<FindOp(params), FindOp(params)>>, "none", "none")

\* the query is started here; its callback is FindResolve
generate(params) == Effects(<<>>, <<FindOp(params)>>, "none", "none")

(***************************************************************************)
(* Bot.run: the MESSAGE handler                                            *)
(***************************************************************************)
\* a handler that persists whatever is neither a request nor a command
OnMessageEffects_SaveDenied(msg) ==
    LET queryParams == getMsgTag(msg)
        command == _parseCommand(msg)
        rest == IF queryParams.res.kind = "object" THEN generate(queryParams.res)
                ELSE IF command.kind = "object" THEN _exec(command.method, msg, command.args)
                ELSE IF _warrantsSave(msg) THEN saveMessage(msg)
                ELSE NoEffects
    IN  [op |-> "message", msg |-> msg, tag |-> queryParams.res, command |-> command,
         sends |-> queryParams.sends \o rest.sends, ops |-> rest.ops, ran |-> rest.ran,
         error |-> rest.error, req |-> NoOp, messages |-> <<>>, genCalls |-> <<>>]

OnMessageEffects(msg) ==
    LET queryParams == getMsgTag(msg)
        command == _parseCommand(msg)
        rest == IF queryParams.res.kind = "object" THEN generate(queryParams.res)
                ELSE IF command.kind = "object" THEN _exec(command.method, msg, command.args)
                ELSE IF queryParams.res.kind = "false" /\ _warrantsSave(msg)
                     THEN saveMessage(msg)
                ELSE NoEffects
    IN  [op |-> "message", msg |-> msg, tag |-> queryParams.res, command |-> command,
         sends |-> queryParams.sends \o rest.sends, ops |-> rest.ops, ran |-> rest.ran,
         error |-> rest.error, req |-> NoOp, messages |-> <<>>, genCalls |-> <<>>]

(***************************************************************************)
(* Bot.generate's callback, Bot.generateChain, Bot.postChain               *)
(***************************************************************************)
\* the strings the text generator may return (it is a black box)
Chains == {<<"z">>, <<"y", " ", "z">>}

\* Query.limit(n): the first n documents; 0 means no limit and a negative
\* n is taken by its absolute value
LimitResult(docs, n) ==
    LET k == IF n < 0 THEN 0 - n ELSE n
    IN  IF n = 0 \/ k >= Len(docs) THEN docs ELSE SubSeq(docs, 1, k)

\* Message.find({user: params.user}).limit(params.limit)
FindResult(op) ==
    LET ByUser(d) == d.user = op.user
    IN  LimitResult(SelectSeq(store, ByUser), op.limit)

\* a generator call bounded by the built-in default rather than this.config
generateChain_BuiltInLimit(seed, chain, threw) ==
    [seed |-> seed, maxLength |-> DefaultLimit, returned |-> chain, threw |-> threw]

\* new MarkovChain(seed, null, this.config.limit).generate(): the call that is
\* made and what it returned
generateChain(seed, chain, threw) ==
    [seed |-> seed, maxLength |-> configLimit, returned |-> chain, threw |-> threw]

\* a reply without the mention of the target user
postChain_NoMention(chain, user, channel) == Send(Str(chain), channel)

postChain(chain, user, channel) ==
    Send(Str(MentionPrefix \o user \o SaysText \o chain), channel)

\* a callback without the test for an empty result
GenerateCallback_NoEmptyCheck(op, messages, chain, threw) ==
    LET textArr == [i \in 1..Len(messages) |-> messages[i].text]
        call == generateChain(Join(textArr, " "), chain, threw)
    IN  IF threw
        THEN [sends |-> <<>>, genCalls |-> <<call>>, error |-> "GeneratorError"]
        ELSE [sends |-> <<postChain(chain, op.user, op.channel)>>,
              genCalls |-> <<call>>, error |-> "none"]

\* the then-callback of generate; chain is the generator's result, or
\* threw tells that the generator raised an exception
GenerateCallback(op, messages, chain, threw) ==
    IF Len(messages) = 0
    THEN [sends |-> <<deny(op.channel)>>, genCalls |-> <<>>, error |-> "none"]
    ELSE LET textArr == [i \in 1..Len(messages) |-> messages[i].text]
             call == generateChain(Join(textArr, " "), chain, threw)
         IN  IF threw
             THEN [sends |-> <<>>, genCalls |-> <<call>>, error |-> "GeneratorError"]
             ELSE [sends |-> <<postChain(chain, op.user, op.channel)>>,
                   genCalls |-> <<call>>, error |-> "none"]

RemoveAt(seq, i) == SubSeq(seq, 1, i - 1) \o SubSeq(seq, i + 1, Len(seq))

Blank(op) ==
    [op |-> op, msg |-> NoMsg, tag |-> FalseTag, command |-> FalseCommand,
     sends |-> <<>>, ops |-> <<>>, ran |-> "none", error |-> "none",
     req |-> NoOp, messages |-> <<>>, genCalls |-> <<>>]

(***************************************************************************)
(* Inputs                                                                  *)
(***************************************************************************)
TeamLimit == 2
ConfigLimits == {DefaultLimit, TeamLimit}

RECURSIVE DigitsOf(_)
DigitsOf(n) ==
    IF n < 10 THEN <<DecDigits[n + 1]>>
    ELSE DigitsOf(n \div 10) \o <<DecDigits[(n % 10) + 1]>>

\* the decimal numeral of an integer
IntToToken(n) == IF n < 0 THEN <<"-">> \o DigitsOf(0 - n) ELSE DigitsOf(n)

LimitValues == {-5, 0, 5, 10}
JunkTokens == {<<"x">>, <<"5", "x">>, <<"0", "x", "1", "0">>, <<"-">>}
NumberTokens == {IntToToken(n) : n \in LimitValues} \cup JunkTokens

SelfMention == MentionOf(Str(BotId))
Punctuation == {<<>>, <<",">>, <<":">>}
MentionForms(u) == {MentionOf(Str(u)) \o p : p \in Punctuation}
TargetTokens == {MeText} \cup UNION {MentionForms(u) : u \in Users \cup {BotId}}
HiText == <<"h", "i">>
ConstructorName == <<"c", "o", "n", "s", "t", "r", "u", "c", "t", "o", "r">>
Keywords == {PurgeName, HelpName, ConstructorName, HiText}
ArgTokens == {HelpFlagShort, HelpFlagLong, <<"x">>}
ArgLists == UNION {[1..n -> ArgTokens] : n \in 0..MaxArgs}
FirstTokens == {SelfMention, MentionOf(Undef), HiText, <<>>}

RichTokenLists ==
    {<<f>> : f \in FirstTokens}
    \cup {<<f, t>> : f \in FirstTokens, t \in TargetTokens \cup {<<>>}}
    \cup {<<f, t, n>> : f \in FirstTokens, t \in TargetTokens, n \in NumberTokens}
    \cup {<<f, k>> \o a : f \in FirstTokens, k \in Keywords, a \in ArgLists}

Subtypes == {NoSubtype, FileShare, "bot_message"}
Timestamps == {1, 2000000}

Msg(text, user, channel, subtype, ts) ==
    [text |-> text, user |-> user, channel |-> channel, subtype |-> subtype, ts |-> ts,
     type |-> "message", team |-> Team]

IngestTokenLists ==
    {<<HiText>>, <<<<>>>>, <<HiText, MeText>>, <<MentionOf(Str(U2)), MeText>>,
     <<SelfMention>>, <<SelfMention, HiText>>, <<SelfMention, <<>>, MeText>>,
     <<SelfMention, MeText>>, <<SelfMention, SelfMention>>, <<SelfMention, PurgeName>>,
     <<SelfMention, ConstructorName>>}

\* the messages of the handler specification: every token list with every
\* author and channel, and the ingestion cases with every subtype and timestamp
RichMessages ==
    {Msg(Join(toks, " "), u, c, NoSubtype, 1) :
        toks \in RichTokenLists, u \in Users, c \in Channels}
    \cup {Msg(Join(toks, " "), u, c, s, t) :
        toks \in IngestTokenLists, u \in Users, c \in Channels, s \in Subtypes,
        t \in Timestamps}

\* the messages of the pipeline specification: chat by two authors (one text
\* by the first, two by the second), each on a channel of their own; by the first of them a request for the own messages,
\* a request with a negative limit for the other's, and a purge; by the
\* second a request with the configured limit
ChatTokenLists == {<<<<"a">>>>, <<<<"b">>>>}
RequestTokenLists ==
    {<<SelfMention, MeText, <<"1">>>>,
     <<SelfMention, MentionOf(Str(U2)), <<"-", "2">>>>,
     <<SelfMention, PurgeName>>}
Authors == {<<U1, "C1">>, <<U2, "C2">>}
Messages ==
    ({Msg(Join(toks, " "), a[1], a[2], NoSubtype, 1) :
        toks \in ChatTokenLists, a \in Authors} \ {Msg(<<"b">>, U1, "C1", NoSubtype, 1)})
    \cup {Msg(Join(toks, " "), U1, "C1", NoSubtype, 1) : toks \in RequestTokenLists}
    \cup {Msg(Join(<<SelfMention, MeText>>, " "), U2, "C2", NoSubtype, 1)}

(***************************************************************************)
(* index.js and Bot.constructor: one bot per configured team               *)
(***************************************************************************)
\* a limit a team configuration gives, or none
NoLimit == [given |-> FALSE, val |-> 0]
GivenLimit(n) == [given |-> TRUE, val |-> n]
TeamLimits == {NoLimit, GivenLimit(TeamLimit), GivenLimit(TeamLimit + 1)}

\* a team configuration: which mandatory keys it has, and its limit
TeamConfigs ==
    [token : BOOLEAN, name : BOOLEAN, connection : BOOLEAN, limit : TeamLimits]

\* the three tests of the constructor pass
ValidConfig(cfg) == cfg.token /\ cfg.name /\ cfg.connection

\* Object.assign(defaultConfig, config).limit: the target's limit is
\* overwritten when the source has one
AssignLimit(targetLimit, cfg) == IF cfg.limit.given THEN cfg.limit.val ELSE targetLimit

\* the process before index.js has built any bot
Process(teams) == [teams |-> teams, next |-> 1, bots |-> <<>>, crashed |-> FALSE]

\* the process once the bot of its only team is built and started
Running(cfg) ==
    [teams |-> <<cfg>>, next |-> 2, bots |-> <<[team |-> 1, started |-> TRUE]>>,
     crashed |-> FALSE]

\* the configurations of a process with a single bot
SingleTeamConfigs ==
    {cfg \in TeamConfigs : ValidConfig(cfg) /\ AssignLimit(DefaultLimit, cfg) \in ConfigLimits}

(***************************************************************************)
(* The state machine                                                       *)
(***************************************************************************)
Init ==
    /\ id = Undef
    /\ configLimit \in ConfigLimits
    /\ store = <<>>
    /\ pending = <<>>
    /\ last = Blank("init")
    /\ \E cfg \in SingleTeamConfigs :
          /\ configLimit = AssignLimit(DefaultLimit, cfg)
          /\ proc = Running(cfg)

\* the AUTHENTICATED handler of Bot.run
Authenticated ==
    /\ ~proc.crashed
    /\ id' = Str(BotId)
    /\ last' = Blank("authenticated")
    /\ UNCHANGED <<configLimit, store, pending, proc>>

SavesPending == Len(SelectSeq(pending, LAMBDA op : op.kind = "save"))

\* the MESSAGE handler of Bot.run
OnMessage(msg) ==
    LET eff == OnMessageEffects(msg)
    IN  /\ ~proc.crashed
        /\ last' = eff
        /\ pending' = pending \o eff.ops
        /\ UNCHANGED <<id, configLimit, store, proc>>

\* the callback of the query started by generate
FindResolve(i, chain, threw) ==
    /\ ~proc.crashed
    /\ pending[i].kind = "find"
    /\ LET op == pending[i]
           messages == FindResult(op)
           cb == GenerateCallback(op, messages, chain, threw)
       IN  last' = [Blank("find") EXCEPT !.req = op, !.messages = messages,
                        !.sends = cb.sends, !.genCalls = cb.genCalls, !.error = cb.error]
    /\ pending' = RemoveAt(pending, i)
    /\ UNCHANGED <<id, configLimit, store, proc>>

\* the query of generate is rejected by the store: the callback never runs
FindReject(i) ==
    /\ ~proc.crashed
    /\ pending[i].kind = "find"
    /\ last' = [Blank("find") EXCEPT !.req = pending[i], !.error = "Rejected"]
    /\ pending' = RemoveAt(pending, i)
    /\ UNCHANGED <<id, configLimit, store, proc>>

\* a removal that empties the collection
RemoveResult_All(docs, user) == <<>>

\* Message.remove({user: user}): the collection without the documents of user
RemoveResult(docs, user) == SelectSeq(docs, LAMBDA d : d.user # user)

\* the removal of _purge completes and its then-callback confirms; messages
\* records the documents the removal matched
RemoveResolve(i) ==
    /\ ~proc.crashed
    /\ pending[i].kind = "remove"
    /\ LET op == pending[i]
       IN  /\ store' = RemoveResult(store, op.user)
           /\ last' = [Blank("remove") EXCEPT !.req = op,
                  !.messages = SelectSeq(store, LAMBDA d : d.user = op.user),
                  !.sends = <<Send(Str(MentionPrefix \o op.user \o <<">">> \o PurgedText),
                                   op.channel)>>]
    /\ pending' = RemoveAt(pending, i)
    /\ UNCHANGED <<id, configLimit, proc>>

\* the removal of _purge is rejected: no callback runs
RemoveReject(i) ==
    /\ ~proc.crashed
    /\ pending[i].kind = "remove"
    /\ last' = [Blank("remove") EXCEPT !.req = pending[i], !.error = "Rejected"]
    /\ pending' = RemoveAt(pending, i)
    /\ UNCHANGED <<id, configLimit, store, proc>>

\* message.save succeeds: the callback of saveMessage gets no error
SaveResolve(i) ==
    /\ ~proc.crashed
    /\ pending[i].kind = "save"
    /\ store' = Append(store, pending[i].doc)
    /\ last' = [Blank("save") EXCEPT !.req = pending[i]]
    /\ pending' = RemoveAt(pending, i)
    /\ UNCHANGED <<id, configLimit, proc>>

\* message.save fails: the callback of saveMessage throws.  Nothing catches
\* the exception: it either ends the process as an uncaught exception or is
\* swallowed by the promise that invoked the callback (crash tells which)
SaveFail(i, crash) ==
    /\ ~proc.crashed
    /\ pending[i].kind = "save"
    /\ last' = [Blank("save") EXCEPT !.req = pending[i], !.error = "Error"]
    /\ pending' = RemoveAt(pending, i)
    /\ proc' = [proc EXCEPT !.crashed = crash]
    /\ UNCHANGED <<id, configLimit, store>>

\* p is a prefix of s
IsPrefix(p, s) == Len(p) <= Len(s) /\ SubSeq(s, 1, Len(p)) = p

\* the pipeline specification: every handler and callback, a small alphabet
StartsSave(msg) ==
    \E k \in 1..Len(OnMessageEffects(msg).ops) : OnMessageEffects(msg).ops[k].kind = "save"

\* users mention the bot only once it is connected; what the handler does with
\* mentions before that is covered by the handler specification
Deliverable(msg) == IsPrefix(SelfMention, msg.text) => id = Str(BotId)

Receive ==
    \E msg \in Messages :
        /\ Deliverable(msg)
        /\ Len(pending) < MaxPending
        /\ StartsSave(msg) => Len(store) + SavesPending < MaxStore
        /\ OnMessage(msg)

Next ==
    \/ Authenticated
    \/ Receive
    \/ \E i \in 1..Len(pending), chain \in Chains : FindResolve(i, chain, FALSE)
    \/ \E i \in 1..Len(pending) : FindResolve(i, <<>>, TRUE)
    \/ \E i \in 1..Len(pending) : FindReject(i)
    \/ \E i \in 1..Len(pending) : RemoveResolve(i)
    \/ \E i \in 1..Len(pending) : RemoveReject(i)
    \/ \E i \in 1..Len(pending) : SaveResolve(i)
    \/ \E i \in 1..Len(pending), crash \in BOOLEAN : SaveFail(i, crash)

Spec == Init /\ [][Next]_vars

\* the handler specification: the MESSAGE handler applied to each message of a
\* rich alphabet, in the state after construction or after authentication
ReceiveRich ==
    \E msg \in RichMessages :
        /\ pending = <<>>
        /\ last.op \in {"init", "authenticated"}
        /\ OnMessage(msg)

NextHandler == Authenticated \/ ReceiveRich

SpecHandler == Init /\ [][NextHandler]_vars

\* the startup specification: index.js builds and starts one bot per team
TeamLists == UNION {[1..n -> TeamConfigs] : n \in 1..MaxTeams}

InitStartup ==
    /\ id = Undef
    /\ configLimit = DefaultLimit
    /\ store = <<>>
    /\ pending = <<>>
    /\ last = Blank("init")
    /\ proc \in {Process(teams) : teams \in TeamLists}

\* new Bot(teamConfig): the configuration is merged into the shared default
\* object, which becomes this.config, before the three tests; a failed test
\* throws out of forEach and ends the process
ConstructBot ==
    /\ ~proc.crashed
    /\ proc.next <= Len(proc.teams)
    /\ \A k \in 1..Len(proc.bots) : proc.bots[k].started
    /\ LET cfg == proc.teams[proc.next]
       IN  /\ configLimit' = AssignLimit(configLimit, cfg)
           /\ proc' = IF ValidConfig(cfg)
                      THEN [proc EXCEPT !.bots = Append(@, [team |-> proc.next,
                                                            started |-> FALSE]),
                                        !.next = @ + 1]
                      ELSE [proc EXCEPT !.crashed = TRUE]
    /\ last' = Blank("construct")
    /\ UNCHANGED <<id, store, pending>>

\* bot.client.start() of the bot just built
StartBot ==
    /\ ~proc.crashed
    /\ Len(proc.bots) > 0
    /\ ~proc.bots[Len(proc.bots)].started
    /\ proc' = [proc EXCEPT !.bots[Len(proc.bots)].started = TRUE]
    /\ last' = Blank("start")
    /\ UNCHANGED <<id, configLimit, store, pending>>

NextStartup == ConstructBot \/ StartBot

SpecStartup == InitStartup /\ [][NextStartup]_vars

(***************************************************************************)
(* Properties                                                              *)
(***************************************************************************)
\* the tokens of the message handled last
T == Split(last.msg.text, " ")
Handled == last.op = "message"
Addressed == Handled /\ Len(T) >= 2 /\ T[1] = MentionOf(id)
IsHelpFlag(token) == token \in {HelpFlagShort, HelpFlagLong}

\* C1: a message whose first two tokens are both the bot's own mention makes
\* the parser return null, sends exactly one denial to the message's channel,
\* starts no store operation (no query, no insert) and runs no command handler.
C1_SelfMentionDenied ==
    (Addressed /\ T[2] = MentionOf(id)) =>
        /\ last.tag = NullTag
        /\ last.sends = <<[text |-> Str(DenyText), channel |-> last.msg.channel]>>
        /\ last.ops = <<>>
        /\ last.ran = "none"
        /\ last.command.kind = "false"

C1_Witness ==
    /\ Handled /\ id = Str(BotId)
    /\ T = <<SelfMention, SelfMention>>
    /\ Len(last.sends) = 1

\* C2: a message with fewer than two tokens, or whose first token is not the
\* mention of the bot's own id, makes the parser and the dispatcher both
\* return false, and nothing is sent.
C2_NotAddressedIsFalse ==
    (Handled /\ (Len(T) < 2 \/ T[1] # MentionOf(id))) =>
        /\ last.tag = FalseTag
        /\ last.command = FalseCommand
        /\ last.sends = <<>>

C2_Witness ==
    /\ Handled /\ id = Str(BotId)
    /\ T = <<HiText, MeText, <<"1", "0">>>>
    /\ last.tag.kind = "false"

\* a token parseInt reads no number from: no digit after the optional sign
Unparseable(token) ==
    LET body == IF Len(token) > 0 /\ token[1] \in {"+", "-"} THEN Tail(token) ELSE token
    IN  Len(body) = 0 \/ body[1] \notin {"0", "1", "2", "3", "4", "5", "6", "7", "8", "9"}

IsNumeral(token, n) == token = IntToToken(n)

\* the limit of a request whose third token, when present, is T[3]; zeroIsDefault
\* tells whether the numeral 0 stands for the default
LimitAsClaimed(zeroIsDefault) ==
    /\ Len(T) = 2 => last.tag.limit = configLimit
    /\ Len(T) >= 3 =>
        /\ Unparseable(T[3]) => last.tag.limit = configLimit
        /\ \A n \in LimitValues :
              IsNumeral(T[3], n) =>
                  last.tag.limit = (IF zeroIsDefault /\ n = 0 THEN configLimit ELSE n)

\* C3 as stated: "<@BOT> me [n]" from U on C yields the request {U, C, n} for
\* every base-10 integer n, and the default limit when the third token is
\* absent or not parseable, without an error.
C3_Original ==
    (Addressed /\ T[2] = MeText) =>
        /\ last.tag.kind = "object"
        /\ last.tag.user = last.msg.user
        /\ last.tag.channel = last.msg.channel
        /\ LimitAsClaimed(FALSE)
        /\ last.error = "none"

\* C3 amended: "<@BOT> me [n]" from U on C yields the request {U, C, n} for
\* every nonzero base-10 integer n, and the default limit when the third token
\* is absent, not parseable or zero, without an error.
C3_MeRequest ==
    (Addressed /\ T[2] = MeText) =>
        /\ last.tag.kind = "object"
        /\ last.tag.user = last.msg.user
        /\ last.tag.channel = last.msg.channel
        /\ LimitAsClaimed(TRUE)
        /\ last.error = "none"

C3_Witness ==
    /\ Addressed /\ id = Str(BotId)
    /\ T = <<SelfMention, MeText, <<"1", "0">>>>
    /\ last.tag.limit = 10
    /\ configLimit # 10

\* the user a mention token stands for, when it is a mention of a user
IsMentionOfUser(token, u) ==
    \E p \in Punctuation : token = <<"<", "@">> \o u \o <<">">> \o p

\* C4 as stated: "<@BOT> <mention of U2> n", U2 not the bot, yields a request
\* whose target is exactly U2's id, whose channel is the message's channel and
\* whose limit is n, whoever the author is.
C4_Original ==
    \A u \in Users, n \in LimitValues :
        (Addressed /\ Len(T) >= 3 /\ IsMentionOfUser(T[2], u) /\ IsNumeral(T[3], n)) =>
            last.tag = [kind |-> "object", user |-> u, channel |-> last.msg.channel,
                        limit |-> n]

\* C4 amended: as C4, for every nonzero n; for n = 0 the limit is the default.
C4_MentionRequest ==
    \A u \in Users, n \in LimitValues :
        (Addressed /\ Len(T) >= 3 /\ IsMentionOfUser(T[2], u) /\ IsNumeral(T[3], n)) =>
            last.tag = [kind |-> "object", user |-> u, channel |-> last.msg.channel,
                        limit |-> IF n = 0 THEN configLimit ELSE n]

C4_Witness ==
    /\ Addressed /\ id = Str(BotId)
    /\ T = <<SelfMention, <<"<", "@", "U", "2", ">", ",">>, <<"5">>>>
    /\ last.msg.user = U1
    /\ last.tag.user = U2
    /\ last.tag.limit = 5

\* the generation callback ran on the result of a query
Resolved == last.op = "find" /\ last.error # "Rejected"

\* C5: when the query of a request resolves with no message, exactly the fixed
\* denial is sent to the request's channel, the generator is not called, no
\* reply is sent and nothing is raised.
C5_EmptyCorpusDenied ==
    (Resolved /\ Len(last.messages) = 0) =>
        /\ last.sends = <<[text |-> Str(DenyText), channel |-> last.req.channel]>>
        /\ last.genCalls = <<>>
        /\ last.error = "none"

C5_Witness ==
    /\ Resolved /\ Len(last.messages) = 0
    /\ Len(store) > 0
    /\ Len(last.sends) = 1

\* the texts of a sequence of documents, joined by spaces, built from the right
RECURSIVE ExpectedSeed(_)
ExpectedSeed(docs) ==
    IF Len(docs) = 1 THEN docs[1].text
    ELSE ExpectedSeed(SubSeq(docs, 1, Len(docs) - 1)) \o <<" ">> \o docs[Len(docs)].text

\* the documents of user u in the store, in store order
RECURSIVE DocsOf(_, _)
DocsOf(docs, u) ==
    IF Len(docs) = 0 THEN <<>>
    ELSE (IF docs[1].user = u THEN <<docs[1]>> ELSE <<>>) \o DocsOf(Tail(docs), u)

IsSuffix(p, s) == Len(p) <= Len(s) /\ SubSeq(s, Len(s) - Len(p) + 1, Len(s)) = p

\* C6: when the query returns a non-empty sequence, the generator is called
\* once, with the space-joined texts of the returned messages in store order,
\* and once it returns exactly one reply is posted to the request's channel,
\* which begins with the mention of the target user and ends with the
\* generator's output.
C6_ReplyFromCorpus ==
    (Resolved /\ Len(last.messages) > 0) =>
        /\ IsPrefix(last.messages, DocsOf(store, last.req.user))
        /\ Len(last.genCalls) = 1
        /\ last.genCalls[1].seed = ExpectedSeed(last.messages)
        /\ ~last.genCalls[1].threw =>
              /\ Len(last.sends) = 1
              /\ last.sends[1].channel = last.req.channel
              /\ IsPrefix(<<"<", "@">> \o last.req.user \o <<">">>, last.sends[1].text.chars)
              /\ IsSuffix(last.genCalls[1].returned, last.sends[1].text.chars)

C6_Witness ==
    /\ Resolved /\ Len(last.messages) = 2
    /\ last.messages[1].text # last.messages[2].text
    /\ Len(last.sends) = 1
    /\ last.req.channel # last.messages[1].channel

\* the description configured for a command keyword
ConfiguredDescription(keyword) ==
    IF keyword = PurgeName THEN Str(PurgeDescription)
    ELSE IF keyword = HelpName THEN Str(HelpDescription)
    ELSE Undef

\* C7: a resolved command invocation with -h or --help anywhere among its
\* arguments sends the description of the invoked command to the message's
\* channel, runs no handler and starts no store operation.
C7_HelpFlagIntercepts ==
    (Handled /\ last.command.kind = "object"
        /\ \E i \in 3..Len(T) : IsHelpFlag(T[i])) =>
        /\ last.sends = <<[text |-> ConfiguredDescription(T[2]),
                           channel |-> last.msg.channel]>>
        /\ last.ran = "none"
        /\ last.ops = <<>>
        /\ last.error = "none"

C7_Witness ==
    /\ Handled /\ id = Str(BotId)
    /\ T = <<SelfMention, PurgeName, <<"x">>, HelpFlagShort>>
    /\ Len(last.sends) = 1

\* the lines of the help text: the text sent, split at carriage returns
HelpLines == Split(last.sends[1].text.chars, "\r")

\* C8: the help command sends one message to the invoking channel in which
\* every registered command has exactly one line, its keyword between
\* backquotes followed by its configured description, and no other command
\* line appears.
C8_HelpListsCommands ==
    /\ (Addressed /\ T[2] = HelpName /\ ~\E i \in 3..Len(T) : IsHelpFlag(T[i])) =>
            last.ran = "_help"
    /\ last.ran = "_help" =>
        /\ Len(last.sends) = 1
        /\ last.sends[1].channel = last.msg.channel
        /\ \A k \in {PurgeName, HelpName} :
              Cardinality({i \in 1..Len(HelpLines) :
                  HelpLines[i] = <<Backquote>> \o k \o <<Backquote, ":", " ">>
                                    \o ConfiguredDescription(k).chars}) = 1
        /\ Cardinality({i \in 1..Len(HelpLines) :
              Len(HelpLines[i]) > 0 /\ HelpLines[i][1] = Backquote}) = 2

C8_Witness ==
    /\ Handled /\ id = Str(BotId)
    /\ T = <<SelfMention, HelpName, <<"x">>>>
    /\ last.ran = "_help"
    /\ Len(last.sends) = 1

\* C9: a message that the parser and the dispatcher both answer with false
\* starts no insert when its subtype is file_share, and otherwise starts one
\* insert of its fields with the timestamp in milliseconds since the epoch.
C9_IngestionFilter ==
    (Handled /\ last.tag.kind = "false" /\ last.command.kind = "false") =>
        IF last.msg.subtype = "file_share"
        THEN last.ops = <<>>
        ELSE /\ Len(last.ops) = 1
             /\ last.ops[1].kind = "save"
             /\ last.ops[1].doc =
                    [type |-> last.msg.type, channel |-> last.msg.channel,
                     user |-> last.msg.user, text |-> last.msg.text,
                     ts |-> 1000 * last.msg.ts, team |-> last.msg.team]

C9_Witness ==
    /\ Handled /\ id = Str(BotId)
    /\ last.msg.subtype = "bot_message"
    /\ last.msg.ts = 2000000
    /\ T = <<SelfMention, HiText>>
    /\ Len(last.ops) = 1

\* C10: a message addressed to the bot whose second token is neither purge nor
\* help makes the dispatcher return false, runs no handler, raises nothing
\* and sends nothing but the parser's denial; and every invocation returned
\* names a registered handler.
C10_UnregisteredFallsThrough ==
    /\ (Addressed /\ T[2] \notin {PurgeName, HelpName}) =>
            /\ last.command = FalseCommand
            /\ last.ran = "none"
            /\ last.error = "none"
            /\ last.sends = (IF last.tag.kind = "null"
                             THEN <<[text |-> Str(DenyText), channel |-> last.msg.channel]>>
                             ELSE <<>>)
    /\ (Handled /\ last.command.kind = "object") =>
            last.command.method \in {"_purge", "_help"}

\* C11: a failed insert is raised as an error for that attempt and leaves the
\* process running, so that the messages arriving after it are still handled.
C11_FailedInsertKeepsStream ==
    (last.op = "save" /\ last.error = "Error") => ~proc.crashed

\* index.js has nothing left to do: it went through every team, or it died
StartupOver ==
    \/ proc.crashed
    \/ proc.next > Len(proc.teams) /\ \A k \in 1..Len(proc.bots) : proc.bots[k].started

\* the bot of team i has been built and started
Started(i) == \E k \in 1..Len(proc.bots) : proc.bots[k].team = i /\ proc.bots[k].started

\* C12: once startup is over, a team whose configuration lacks the token, the
\* name or the connection has no started bot, and every other team of the
\* list, before or after it, has its bot built and started.
C12_BadTeamIsolated ==
    StartupOver =>
        \A i \in 1..Len(proc.teams) : Started(i) <=> ValidConfig(proc.teams[i])

\* C13: a completed removal of purge leaves no stored message of the invoking
\* author and leaves the messages of every other user as they were, and the
\* confirmation is sent by the completion of the removal only: the handler
\* itself sends nothing, and a failed removal changes nothing and sends nothing.
C13_PurgeFrame ==
    /\ [](Handled /\ last.ran = "_purge" =>
            /\ last.sends = <<>>
            /\ last.ops = <<[kind |-> "remove", user |-> last.msg.user,
                             channel |-> last.msg.channel, limit |-> 0, doc |-> NoDoc]>>)
    /\ [][last'.op = "remove" =>
            IF last'.error = "none"
            THEN /\ DocsOf(store', last'.req.user) = <<>>
                 /\ \A u \in Users \ {last'.req.user} : DocsOf(store', u) = DocsOf(store, u)
                 /\ Len(store') = Len(store) - Len(DocsOf(store, last'.req.user))
                 /\ Len(last'.sends) = 1
                 /\ last'.sends[1].channel = last'.req.channel
                 /\ IsPrefix(<<"<", "@">> \o last'.req.user \o <<">">>,
                             last'.sends[1].text.chars)
            ELSE /\ store' = store
                 /\ last'.sends = <<>>]_vars

C13_Witness ==
    /\ last.op = "remove" /\ last.error = "none"
    /\ Len(last.messages) > 0
    /\ Len(store) > 0
    /\ Len(last.sends) = 1

\* C14 as stated: the maximum length handed to the generator is the limit of
\* the request being processed.
C14_Original ==
    (Resolved /\ Len(last.genCalls) = 1) =>
        last.genCalls[1].maxLength = last.req.limit

\* C14: the maximum length handed to the generator is the limit of the bot's
\* configuration, whatever the limit of the request being processed.
C14_MaxLengthIsConfigLimit ==
    (Resolved /\ Len(last.genCalls) = 1) =>
        last.genCalls[1].maxLength = configLimit

C14_Witness ==
    /\ Resolved /\ Len(last.genCalls) = 1
    /\ last.req.limit # configLimit
    /\ Len(last.messages) = last.req.limit
    /\ ~last.genCalls[1].threw

\* C15: the limit of every request the parser returns is a positive integer,
\* whatever the third token of the message, the configured limit being positive.
C15_LimitPositive ==
    (Handled /\ last.tag.kind = "object" /\ configLimit > 0) => last.tag.limit > 0

\* the reply of a generation: a send that is not the denial
IsReply(send) == send.text # Str(DenyText)

\* C16: whatever else is in flight, the messages a query hands to the generation
\* of a request are stored messages of the request's target user, at most
\* limit of them, their texts are the generator's corpus, and the reply
\* mentions the target user and goes to the channel of the request.
C16_CorpusIsolated ==
    Resolved =>
        /\ \A k \in 1..Len(last.messages) :
              /\ last.messages[k].user = last.req.user
              /\ \E j \in 1..Len(store) : store[j] = last.messages[k]
        /\ Len(last.messages) <= last.req.limit
        /\ \A k \in 1..Len(last.genCalls) :
              last.genCalls[k].seed = ExpectedSeed(last.messages)
        /\ \A k \in 1..Len(last.sends) :
              /\ last.sends[k].channel = last.req.channel
              /\ IsReply(last.sends[k]) =>
                    IsPrefix(<<"<", "@">> \o last.req.user \o <<">">>,
                             last.sends[k].text.chars)

\* C17: as long as the identity has not been delivered, no message is taken
\* as addressed to the bot: the parser and the dispatcher both return false,
\* nothing is sent, and no query, removal or handler is started.
C17_NotAddressedBeforeIdentity ==
    (Handled /\ id = Undef) =>
        /\ last.tag = FalseTag
        /\ last.command = FalseCommand
        /\ last.sends = <<>>
        /\ last.ran = "none"
        /\ \A k \in 1..Len(last.ops) : last.ops[k].kind = "save"

\* the number of queries in flight
FindsPending == Len(SelectSeq(pending, LAMBDA op : op.kind = "find"))

\* C18: a message that parses to a request starts exactly one query, with the
\* request's user, channel and limit, and no other message starts one; the
\* completion of a query takes that one query out of flight; when the query
\* resolved and the generator did not fail, exactly one message, the denial
\* for an empty result and the reply otherwise, goes to the request's
\* channel; when the query or the generator failed, nothing is sent.
C18_RequestConsumedOnce ==
    /\ [](Handled =>
            IF last.tag.kind = "object"
            THEN last.ops = <<[kind |-> "find", user |-> last.tag.user,
                               channel |-> last.tag.channel, limit |-> last.tag.limit,
                               doc |-> NoDoc]>>
            ELSE \A k \in 1..Len(last.ops) : last.ops[k].kind # "find")
    /\ [](last.op = "find" =>
            IF last.error = "none"
            THEN /\ Len(last.sends) = 1
                 /\ last.sends[1].channel = last.req.channel
                 /\ IsReply(last.sends[1]) <=> Len(last.messages) > 0
            ELSE last.sends = <<>>)
    /\ [][/\ last'.op = "find" =>
                /\ FindsPending' = FindsPending - 1
                /\ \E i \in 1..Len(pending) :
                      pending[i] = last'.req /\ pending' = RemoveAt(pending, i)
          /\ FindsPending' > FindsPending =>
                /\ last'.op = "message" /\ last'.tag.kind = "object"
                /\ FindsPending' = FindsPending + 1]_vars

C18_Witness ==
    /\ last.op = "find" /\ last.error = "none"
    /\ Len(last.sends) = 1 /\ IsReply(last.sends[1])
    /\ FindsPending > 0

\* what a handled message triggered
StartedPipeline == \E k \in 1..Len(last.ops) : last.ops[k].kind = "find"
ExecutedCommand ==
    \/ last.ran # "none"
    \/ last.error # "none"
    \/ \E k \in 1..Len(last.ops) : last.ops[k].kind = "remove"
    \/ last.command.kind = "object" /\ Len(last.sends) > 0
SentDenial == \E k \in 1..Len(last.sends) : last.sends[k] = [text |-> Str(DenyText), channel |-> last.msg.channel]
Persisted == \E k \in 1..Len(last.ops) : last.ops[k].kind = "save"
Count(b) == IF b THEN 1 ELSE 0

\* C19: a message triggers at most one of: the start of a generation, the
\* execution of a command (its handler or the help interception), the denial
\* of a self-mention, the insertion of the message; and a message that parses
\* to a request, to a command invocation or to null is not inserted.
C19_AtMostOneOutcome ==
    Handled =>
        /\ Count(StartedPipeline) + Count(ExecutedCommand) + Count(SentDenial)
              + Count(Persisted) <= 1
        /\ Len(last.ops) <= 1
        /\ (last.tag.kind \in {"object", "null"} \/ last.command.kind = "object") => ~Persisted

C19_Witness ==
    /\ Handled /\ id = Str(BotId)
    /\ last.tag.kind = "null"
    /\ SentDenial
    /\ last.msg.subtype = NoSubtype
    /\ last.ops = <<>>

\* the limit the configuration of team i asks for: its own, or the default
OwnLimit(i) ==
    IF proc.teams[i].limit.given THEN proc.teams[i].limit.val ELSE DefaultLimit

\* this.config.limit of the bot of team i: every bot holds the one object
\* that Object.assign returned
BotLimit(i) == configLimit

\* C20: the limit every constructed bot applies is the limit of its own team's
\* configuration, or 150 when that gives none, whichever bots were built
\* before or after it.
C20_ConfigIndependent ==
    \A k \in 1..Len(proc.bots) : BotLimit(proc.bots[k].team) = OwnLimit(proc.bots[k].team)

====
